---- MODULE Spec2Model ----
(***************************************************************************)
(* Model of package logger (src/logger.go): the process-wide logging       *)
(* facade `l` over a zap SugaredLogger, the package initialisation that    *)
(* builds it, and the per-level prometheus line counters.                  *)
(*                                                                         *)
(* The zap engine, the prometheus counter vector and pkg/errors are the    *)
(* dependencies pinned in go.mod (zap v1.16.0, client_golang v1.5.1,       *)
(* pkg/errors v0.8.1); they are modelled by what the calls in logger.go    *)
(* rely on: a record is written iff its level is enabled, Panic panics     *)
(* and Fatal exits after the record was handed over, With returns a new    *)
(* logger and leaves its receiver alone, Counter.Inc is atomic.            *)
(***************************************************************************)
EXTENDS Integers, Sequences, FiniteSets, TLC

\* Bounds of the model.
MaxCalls == 3
NumThreads == 2
Threads == 1..NumThreads

\* zapcore.Level values, as labelled at src/logger.go:287-293.
DebugLevel == -1
InfoLevel == 0
WarnLevel == 1
ErrorLevel == 2
DPanicLevel == 3
PanicLevel == 4
FatalLevel == 5
Levels == DebugLevel..FatalLevel

\* zapcore.Level.String(): the label of each level's counter.
LevelString(lvl) ==
  CASE lvl = DebugLevel -> "debug"
    [] lvl = InfoLevel -> "info"
    [] lvl = WarnLevel -> "warn"
    [] lvl = ErrorLevel -> "error"
    [] lvl = DPanicLevel -> "dpanic"
    [] lvl = PanicLevel -> "panic"
    [] lvl = FatalLevel -> "fatal"

Labels == {LevelString(lvl) : lvl \in Levels}

TraceId == "TraceID"

\* ---- inputs ------------------------------------------------------------

\* Values of the LOG_LEVEL environment variable ("" when it is not set).
EnvLevels == {"", "debug", "info", "Fatal", "verbose"}

\* Errors are chains of messages, outermost context first; nil is empty.
NilErr == <<>>
Errs == {NilErr, <<"EOF">>}
OptionalMsgs == {<<>>, <<"closing file">>}
Args == {<<"x">>}
KeysAndValues == {{}, {<<"port", "8080">>}}
Bytes == {<<104, 105>>}

\* Callbacks handed to ErrorIfCalling: what each returns and its name.
Funcs == {"fOk", "fFail"}
FuncResult(f) == IF f = "fOk" THEN NilErr ELSE <<"EOF">>
FuncName(f) == IF f = "fOk" THEN "main.closeOk" ELSE "main.closeFail"

\* Spans handed to WithSpan, and span.SpanContext().TraceID().String().
NilSpan == "nil"
Spans == {NilSpan, "span1"}
TraceIDString(span) == IF span = "span1" THEN "0af7651916cd43dd8448eb211c80319c" ELSE "00000000000000000000000000000000"

NoLogger == [level |-> FatalLevel + 1, fields |-> {}, built |-> FALSE]
NoRecord == [level |-> FatalLevel + 1, msg |-> <<>>, fields |-> {}, written |-> FALSE]
NoArg == "-"

VARIABLES
  pc,        \* where the process is: a step of init(), "main", "panic", "exit"
  sinks,     \* zap's sink registry: the registered schemes
  env,       \* os.Getenv("LOG_LEVEL")
  err,       \* init's local err
  level,     \* init's local level
  l,         \* the package variable l (its engine handle)
  counters,  \* lineCounter: label -> value
  handed,    \* records handed to the engine, per level
  written,   \* records the engine wrote to its destinations
  last,      \* the last record handed to the engine
  op,        \* the last call made and what it returned
  calls,     \* number of calls made
  invoked,   \* invocations of the callback during the last call
  spanOf,    \* the last non-nil span WithSpan was called with
  tpc,       \* per goroutine: the statement it is at inside a facade method
  returned,  \* calls that returned to their caller, per level
  overlap    \* whether two calls were ever in progress at once

vars == <<pc, sinks, env, err, level, l, counters, handed, written, last, op, calls, invoked, spanOf, tpc, returned, overlap>>

\* ---- the dependencies, as logger.go uses them ---------------------------

\* fmt.Sprintf(format, values...): the format followed by what fills it.
Sprintf(format, values) == <<format>> \o values

\* errors.Wrap(err, msg): msg becomes the outermost context; nil stays nil.
Wrap(e, msg) == IF e = NilErr THEN NilErr ELSE <<msg>> \o e

\* bytes.ToLower over the LOG_LEVEL values of the model.
ToLower(text) == IF text = "Fatal" THEN "fatal" ELSE text

\* zapcore.Level.unmarshalText: the names it knows; "" is the zero value.
unmarshalText(text) ==
  CASE text \in {"debug", "DEBUG"} -> [ok |-> TRUE, level |-> DebugLevel]
    [] text \in {"info", "INFO", ""} -> [ok |-> TRUE, level |-> InfoLevel]
    [] text \in {"warn", "WARN"} -> [ok |-> TRUE, level |-> WarnLevel]
    [] text \in {"error", "ERROR"} -> [ok |-> TRUE, level |-> ErrorLevel]
    [] text \in {"dpanic", "DPANIC"} -> [ok |-> TRUE, level |-> DPanicLevel]
    [] text \in {"panic", "PANIC"} -> [ok |-> TRUE, level |-> PanicLevel]
    [] text \in {"fatal", "FATAL"} -> [ok |-> TRUE, level |-> FatalLevel]
    [] OTHER -> [ok |-> FALSE, level |-> InfoLevel]

\* level.UnmarshalText(text): the text as given, then lower-cased.
UnmarshalText(text) ==
  IF unmarshalText(text).ok THEN unmarshalText(text) ELSE unmarshalText(ToLower(text))

\* registerOSSinks(): platform specific, opaque: it fails, or registers the
\* platform's schemes.
RegisterOSSinksOutcomes ==
  { [err |-> NilErr, schemes |-> {}],
    [err |-> NilErr, schemes |-> {"winfile"}],
    [err |-> <<"sink factory already registered">>, schemes |-> {}] }

\* logFileURI(dir): platform specific, opaque.
LogFileURI(dir) == <<"file", dir, "log.jsonl">>

\* Counter.Inc() on the counter labelled lbl: one atomic add.
Inc(c, lbl) == [c EXCEPT ![lbl] = @ + 1]

\* SugaredLogger.With(key, value): a new logger carrying the field; the
\* receiver is left as it was.
With(e, key, value) == [e EXCEPT !.fields = @ \cup {<<key, value>>}]

\* The engine's level check: a record is written iff its level is enabled.
Enabled(e, lvl) == lvl >= e.level

\* The record the engine e makes of an emission.
Record(e, lvl, msg, kv) ==
  [level |-> lvl, msg |-> msg, fields |-> e.fields \cup kv, written |-> Enabled(e, lvl)]

\* log.l.<Level>(...): the record is handed to the engine and written if enabled.
EngineLog(e, lvl, msg, kv) ==
  /\ handed' = [handed EXCEPT ![lvl] = @ + 1]
  /\ written' = written + (IF Enabled(e, lvl) THEN 1 ELSE 0)
  /\ last' = Record(e, lvl, msg, kv)

\* A call and what it returned (nothing: the empty tuple).
Op(m, e, o, f, s, r) == [method |-> m, err |-> e, opt |-> o, f |-> f, span |-> s, result |-> r]
Void == <<>>

\* A goroutine that is in no facade method.
Idle == [at |-> "idle", level |-> FatalLevel + 1]

\* The goroutines of the concurrent specification; the sequential one makes
\* every call on the main goroutine and leaves them alone.
goroutines == <<tpc, returned, overlap>>

\* ---- initial state: the process starts, init() has not run --------------

Init ==
  /\ pc = "registerPretty"
  /\ sinks \in {{"file"}, {"file", "pretty"}}
  /\ env \in EnvLevels
  /\ err = NilErr
  /\ level = InfoLevel
  /\ l = NoLogger
  /\ counters = [lbl \in Labels |-> 0]
  /\ handed = [lvl \in Levels |-> 0]
  /\ written = 0
  /\ last = NoRecord
  /\ op = Op("none", NilErr, <<>>, NoArg, NilSpan, Void)
  /\ calls = 0
  /\ invoked = 0
  /\ spanOf = NilSpan
  /\ tpc = [t \in Threads |-> Idle]
  /\ returned = [lvl \in Levels |-> 0]
  /\ overlap = FALSE

\* fatalLineCounter.Inc(); log.Fatal(err): the standard logger prints and exits.
StartupFatal(e) ==
  /\ err' = e
  /\ counters' = Inc(counters, LevelString(FatalLevel))
  /\ pc' = "exit"

\* ---- init() --------------------------------------------------------------

InitRegisterPretty ==
  /\ pc = "registerPretty"
  /\ IF "pretty" \in sinks
       THEN StartupFatal(<<"sink factory already registered">>) /\ UNCHANGED sinks
       ELSE sinks' = sinks \cup {"pretty"} /\ pc' = "registerOS" /\ UNCHANGED <<err, counters>>
  /\ UNCHANGED <<env, level, l, handed, written, last, op, calls, invoked, spanOf, goroutines>>

InitRegisterOSSinks ==
  /\ pc = "registerOS"
  /\ \E r \in RegisterOSSinksOutcomes :
       IF r.err # NilErr
         THEN StartupFatal(r.err) /\ UNCHANGED sinks
         ELSE sinks' = sinks \cup r.schemes /\ pc' = "parseLevel" /\ UNCHANGED <<err, counters>>
  /\ UNCHANGED <<env, level, l, handed, written, last, op, calls, invoked, spanOf, goroutines>>

\* An init() that goes on with the zero level when LOG_LEVEL does not parse.
InitParseLevelIgnoresErr ==
  /\ pc = "parseLevel"
  /\ level' = UnmarshalText(env).level
  /\ pc' = "build"
  /\ UNCHANGED <<err, counters>>
  /\ UNCHANGED <<sinks, env, l, handed, written, last, op, calls, invoked, spanOf, goroutines>>

InitParseLevel ==
  /\ pc = "parseLevel"
  /\ IF ~UnmarshalText(env).ok
       THEN StartupFatal(<<"unrecognized level", env>>) /\ UNCHANGED level
       ELSE level' = UnmarshalText(env).level /\ pc' = "build" /\ UNCHANGED <<err, counters>>
  /\ UNCHANGED <<sinks, env, l, handed, written, last, op, calls, invoked, spanOf, goroutines>>

InitBuild ==
  /\ pc = "build"
  /\ \E built \in BOOLEAN :
       IF ~built
         THEN StartupFatal(<<"couldn't open sink">>) /\ UNCHANGED l
         ELSE /\ l' = [level |-> level, fields |-> {}, built |-> TRUE]
              /\ pc' = "main"
              /\ UNCHANGED <<err, counters>>
  /\ UNCHANGED <<sinks, env, level, handed, written, last, op, calls, invoked, spanOf, goroutines>>

\* ---- the facade: methods of logger, called on the package's l -----------

\* What init() left behind; no method assigns it.
startup == <<sinks, env, err, level, l>>

\* The counters of lines 287-293, by their label.
debugLineCounter == LevelString(DebugLevel)
infoLineCounter == LevelString(InfoLevel)
warnLineCounter == LevelString(WarnLevel)
errorLineCounter == LevelString(ErrorLevel)
dPanicLineCounter == LevelString(DPanicLevel)
panicLineCounter == LevelString(PanicLevel)
fatalLineCounter == LevelString(FatalLevel)

\* A call can be made: init() is over, the process runs, no panic is unwinding.
CanCall == pc = "main" /\ calls < MaxCalls

\* The call is made: it is the last call, and no callback has run in it yet.
Called(o, n) == op' = o /\ calls' = calls + 1 /\ invoked' = n /\ UNCHANGED goroutines

\* log.l.Infow(msg, keysAndValues...); infoLineCounter.Inc()
Infow ==
  /\ CanCall
  /\ \E msg \in Args, keysAndValues \in KeysAndValues : EngineLog(l, InfoLevel, msg, keysAndValues)
  /\ counters' = Inc(counters, infoLineCounter)
  /\ Called(Op("Infow", NilErr, <<>>, NoArg, NilSpan, Void), 0)
  /\ UNCHANGED <<pc, startup, spanOf>>

\* log.l.Debugw(msg, keysAndValues...); debugLineCounter.Inc()
Debugw ==
  /\ CanCall
  /\ \E msg \in Args, keysAndValues \in KeysAndValues : EngineLog(l, DebugLevel, msg, keysAndValues)
  /\ counters' = Inc(counters, debugLineCounter)
  /\ Called(Op("Debugw", NilErr, <<>>, NoArg, NilSpan, Void), 0)
  /\ UNCHANGED <<pc, startup, spanOf>>

\* log.l.Warnw(msg, keysAndValues...); warnLineCounter.Inc()
Warnw ==
  /\ CanCall
  /\ \E msg \in Args, keysAndValues \in KeysAndValues : EngineLog(l, WarnLevel, msg, keysAndValues)
  /\ counters' = Inc(counters, warnLineCounter)
  /\ Called(Op("Warnw", NilErr, <<>>, NoArg, NilSpan, Void), 0)
  /\ UNCHANGED <<pc, startup, spanOf>>

\* log.l.Errorw(msg, keysAndValues...); errorLineCounter.Inc()
Errorw ==
  /\ CanCall
  /\ \E msg \in Args, keysAndValues \in KeysAndValues : EngineLog(l, ErrorLevel, msg, keysAndValues)
  /\ counters' = Inc(counters, errorLineCounter)
  /\ Called(Op("Errorw", NilErr, <<>>, NoArg, NilSpan, Void), 0)
  /\ UNCHANGED <<pc, startup, spanOf>>

\* log.l.Info(fmt.Sprintf(format, values...)); infoLineCounter.Inc()
Infof ==
  /\ CanCall
  /\ \E format \in Args, values \in Args : EngineLog(l, InfoLevel, Sprintf(format[1], values), {})
  /\ counters' = Inc(counters, infoLineCounter)
  /\ Called(Op("Infof", NilErr, <<>>, NoArg, NilSpan, Void), 0)
  /\ UNCHANGED <<pc, startup, spanOf>>

\* log.l.Debug(fmt.Sprintf(format, values...)); debugLineCounter.Inc()
Debugf ==
  /\ CanCall
  /\ \E format \in Args, values \in Args : EngineLog(l, DebugLevel, Sprintf(format[1], values), {})
  /\ counters' = Inc(counters, debugLineCounter)
  /\ Called(Op("Debugf", NilErr, <<>>, NoArg, NilSpan, Void), 0)
  /\ UNCHANGED <<pc, startup, spanOf>>

\* log.l.Warn(fmt.Sprintf(format, values...)); warnLineCounter.Inc()
Warnf ==
  /\ CanCall
  /\ \E format \in Args, values \in Args : EngineLog(l, WarnLevel, Sprintf(format[1], values), {})
  /\ counters' = Inc(counters, warnLineCounter)
  /\ Called(Op("Warnf", NilErr, <<>>, NoArg, NilSpan, Void), 0)
  /\ UNCHANGED <<pc, startup, spanOf>>

\* log.l.Info(args...); infoLineCounter.Inc()
Info ==
  /\ CanCall
  /\ \E args \in Args : EngineLog(l, InfoLevel, args, {})
  /\ counters' = Inc(counters, infoLineCounter)
  /\ Called(Op("Info", NilErr, <<>>, NoArg, NilSpan, Void), 0)
  /\ UNCHANGED <<pc, startup, spanOf>>

\* log.l.Debug(args...); debugLineCounter.Inc()
Debug ==
  /\ CanCall
  /\ \E args \in Args : EngineLog(l, DebugLevel, args, {})
  /\ counters' = Inc(counters, debugLineCounter)
  /\ Called(Op("Debug", NilErr, <<>>, NoArg, NilSpan, Void), 0)
  /\ UNCHANGED <<pc, startup, spanOf>>

\* log.l.Warn(args...); warnLineCounter.Inc()
Warn ==
  /\ CanCall
  /\ \E args \in Args : EngineLog(l, WarnLevel, args, {})
  /\ counters' = Inc(counters, warnLineCounter)
  /\ Called(Op("Warn", NilErr, <<>>, NoArg, NilSpan, Void), 0)
  /\ UNCHANGED <<pc, startup, spanOf>>

\* log.l.Error(args...); errorLineCounter.Inc()
Error ==
  /\ CanCall
  /\ \E args \in Args : EngineLog(l, ErrorLevel, args, {})
  /\ counters' = Inc(counters, errorLineCounter)
  /\ Called(Op("Error", NilErr, <<>>, NoArg, NilSpan, Void), 0)
  /\ UNCHANGED <<pc, startup, spanOf>>

\* log.l.Error(fmt.Sprintf(format, values...)); errorLineCounter.Inc()
Errorf ==
  /\ CanCall
  /\ \E format \in Args, values \in Args : EngineLog(l, ErrorLevel, Sprintf(format[1], values), {})
  /\ counters' = Inc(counters, errorLineCounter)
  /\ Called(Op("Errorf", NilErr, <<>>, NoArg, NilSpan, Void), 0)
  /\ UNCHANGED <<pc, startup, spanOf>>

\* The package-level Infow: l.Infow(msg, keysAndValues...), which counts the
\* line, and then infoLineCounter.Inc() once more.
PkgInfow ==
  /\ CanCall
  /\ \E msg \in Args, keysAndValues \in KeysAndValues : EngineLog(l, InfoLevel, msg, keysAndValues)
  /\ counters' = Inc(Inc(counters, infoLineCounter), infoLineCounter)
  /\ Called(Op("pkg.Infow", NilErr, <<>>, NoArg, NilSpan, Void), 0)
  /\ UNCHANGED <<pc, startup, spanOf>>

\* Write(b): log.l.Info(string(b)); return len(b), nil. No counter is touched.
Write ==
  /\ CanCall
  /\ \E b \in Bytes :
       /\ EngineLog(l, InfoLevel, <<b>>, {})
       /\ Called(Op("Write", NilErr, <<>>, NoArg, NilSpan, <<Len(b), NilErr>>), 0)
  /\ UNCHANGED <<pc, startup, counters, spanOf>>

\* Panicf: log.l.Panic(fmt.Sprintf(...)) panics once the record is handed
\* over, so the panicLineCounter.Inc() after it is never reached.
Panicf ==
  /\ CanCall
  /\ \E format \in Args, values \in Args : EngineLog(l, PanicLevel, Sprintf(format[1], values), {})
  /\ pc' = "panic"
  /\ Called(Op("Panicf", NilErr, <<>>, NoArg, NilSpan, Void), 0)
  /\ UNCHANGED <<startup, counters, spanOf>>

\* Panic: log.l.Panic(args...) panics; panicLineCounter.Inc() is never reached.
Panic ==
  /\ CanCall
  /\ \E args \in Args : EngineLog(l, PanicLevel, args, {})
  /\ pc' = "panic"
  /\ Called(Op("Panic", NilErr, <<>>, NoArg, NilSpan, Void), 0)
  /\ UNCHANGED <<startup, counters, spanOf>>

\* A WarnIf that counts before it looks at err.
WarnIfCountsNil ==
  /\ CanCall
  /\ \E e \in Errs :
       /\ IF e # NilErr
            THEN EngineLog(l, WarnLevel, e, {})
            ELSE UNCHANGED <<handed, written, last>>
       /\ counters' = Inc(counters, warnLineCounter)
       /\ Called(Op("WarnIf", e, <<>>, NoArg, NilSpan, Void), 0)
  /\ UNCHANGED <<pc, startup, spanOf>>

\* WarnIf(err): nothing for nil; else log.l.Warn(err); warnLineCounter.Inc().
WarnIf ==
  /\ CanCall
  /\ \E e \in Errs :
       /\ IF e # NilErr
            THEN EngineLog(l, WarnLevel, e, {}) /\ counters' = Inc(counters, warnLineCounter)
            ELSE UNCHANGED <<handed, written, last, counters>>
       /\ Called(Op("WarnIf", e, <<>>, NoArg, NilSpan, Void), 0)
  /\ UNCHANGED <<pc, startup, spanOf>>

\* ErrorIf(err, optionalMsg...): nothing for nil; else the error, wrapped
\* with optionalMsg[0] when there is one, is logged at Error and counted.
ErrorIf ==
  /\ CanCall
  /\ \E e \in Errs, optionalMsg \in OptionalMsgs :
       /\ IF e # NilErr
            THEN /\ IF Len(optionalMsg) > 0
                      THEN EngineLog(l, ErrorLevel, Wrap(e, optionalMsg[1]), {})
                      ELSE EngineLog(l, ErrorLevel, e, {})
                 /\ counters' = Inc(counters, errorLineCounter)
            ELSE UNCHANGED <<handed, written, last, counters>>
       /\ Called(Op("ErrorIf", e, optionalMsg, NoArg, NilSpan, Void), 0)
  /\ UNCHANGED <<pc, startup, spanOf>>

\* An ErrorIfCalling that logs the error without the name of f.
ErrorIfCallingUnnamed ==
  /\ CanCall
  /\ \E f \in Funcs, optionalMsg \in OptionalMsgs :
       LET e == FuncResult(f) IN
       /\ IF e # NilErr
            THEN /\ IF Len(optionalMsg) > 0
                      THEN EngineLog(l, ErrorLevel, Wrap(e, optionalMsg[1]), {})
                      ELSE EngineLog(l, ErrorLevel, e, {})
                 /\ counters' = Inc(counters, errorLineCounter)
            ELSE UNCHANGED <<handed, written, last, counters>>
       /\ Called(Op("ErrorIfCalling", NilErr, optionalMsg, f, NilSpan, Void), 1)
  /\ UNCHANGED <<pc, startup, spanOf>>

\* ErrorIfCalling(f, optionalMsg...): err := f(); a non-nil err is wrapped
\* with the name of f, then with optionalMsg[0] when there is one, logged at
\* Error and counted.
ErrorIfCalling ==
  /\ CanCall
  /\ \E f \in Funcs, optionalMsg \in OptionalMsgs :
       LET e == FuncResult(f) IN
       /\ IF e # NilErr
            THEN /\ IF Len(optionalMsg) > 0
                      THEN EngineLog(l, ErrorLevel, Wrap(Wrap(e, FuncName(f)), optionalMsg[1]), {})
                      ELSE EngineLog(l, ErrorLevel, Wrap(e, FuncName(f)), {})
                 /\ counters' = Inc(counters, errorLineCounter)
            ELSE UNCHANGED <<handed, written, last, counters>>
       /\ Called(Op("ErrorIfCalling", NilErr, optionalMsg, f, NilSpan, Void), 1)
  /\ UNCHANGED <<pc, startup, spanOf>>

\* A PanicIf that logs at Error, which does not panic.
PanicIfLogsError ==
  /\ CanCall
  /\ \E e \in Errs :
       /\ IF e # NilErr
            THEN EngineLog(l, ErrorLevel, e, {})
            ELSE UNCHANGED <<handed, written, last>>
       /\ Called(Op("PanicIf", e, <<>>, NoArg, NilSpan, Void), 0)
  /\ UNCHANGED <<pc, startup, counters, spanOf>>

\* PanicIf(err): nothing for nil; else log.l.Panic(err), which panics. No
\* counter is touched.
PanicIf ==
  /\ CanCall
  /\ \E e \in Errs :
       /\ IF e # NilErr
            THEN EngineLog(l, PanicLevel, e, {}) /\ pc' = "panic"
            ELSE UNCHANGED <<handed, written, last, pc>>
       /\ Called(Op("PanicIf", e, <<>>, NoArg, NilSpan, Void), 0)
  /\ UNCHANGED <<startup, counters, spanOf>>

\* Fatal: fatalLineCounter.Inc(); log.l.Fatal(args...), which exits.
Fatal ==
  /\ CanCall
  /\ counters' = Inc(counters, fatalLineCounter)
  /\ \E args \in Args : EngineLog(l, FatalLevel, args, {})
  /\ pc' = "exit"
  /\ Called(Op("Fatal", NilErr, <<>>, NoArg, NilSpan, Void), 0)
  /\ UNCHANGED <<startup, spanOf>>

\* Fatalf: log.l.Fatal(fmt.Sprintf(...)) exits once the record is handed
\* over, so the fatalLineCounter.Inc() after it is never reached.
Fatalf ==
  /\ CanCall
  /\ \E format \in Args, values \in Args : EngineLog(l, FatalLevel, Sprintf(format[1], values), {})
  /\ pc' = "exit"
  /\ Called(Op("Fatalf", NilErr, <<>>, NoArg, NilSpan, Void), 0)
  /\ UNCHANGED <<startup, counters, spanOf>>

\* WithSpan(span): for a non-nil span, log.l.With(TraceId, id) makes a logger
\* carrying the field; the method returns nothing and assigns nothing, so
\* that logger is dropped and l is as it was.
WithSpan ==
  /\ CanCall
  /\ \E span \in Spans :
       LET derived == IF span # NilSpan THEN With(l, TraceId, TraceIDString(span)) ELSE l IN
       /\ derived.built
       /\ spanOf' = IF span # NilSpan THEN span ELSE spanOf
       /\ Called(Op("WithSpan", NilErr, <<>>, NoArg, span, Void), 0)
  /\ UNCHANGED <<pc, startup, counters, handed, written, last>>

\* Sync(): return log.l.Sync(), whatever the flush gives.
Sync ==
  /\ CanCall
  /\ \E e \in {NilErr, <<"sync failed">>} :
       Called(Op("Sync", NilErr, <<>>, NoArg, NilSpan, <<e>>), 0)
  /\ UNCHANGED <<pc, startup, counters, handed, written, last, spanOf>>

\* CreateProductionLogger(dir, jsonConsole, lvl, toDisk): the engine built
\* from the production config is returned to the caller; a failed build
\* counts a fatal line and exits.
CreateProductionLogger ==
  /\ CanCall
  /\ \E jsonConsole \in BOOLEAN, toDisk \in BOOLEAN, lvl \in {DebugLevel, ErrorLevel}, built \in BOOLEAN :
       LET paths == IF jsonConsole THEN <<"stderr">> ELSE <<"pretty://console">>
           config == [OutputPaths |-> IF toDisk THEN Append(paths, LogFileURI("dir")) ELSE paths,
                      ErrorOutputPaths |-> IF toDisk THEN <<"stderr", LogFileURI("dir")>> ELSE <<"stderr">>,
                      Level |-> lvl]
       IN IF ~built
            THEN /\ counters' = Inc(counters, fatalLineCounter)
                 /\ pc' = "exit"
                 /\ Called(Op("CreateProductionLogger", NilErr, <<>>, NoArg, NilSpan, Void), 0)
            ELSE /\ Called(Op("CreateProductionLogger", NilErr, <<>>, NoArg, NilSpan, <<config>>), 0)
                 /\ UNCHANGED <<pc, counters>>
  /\ UNCHANGED <<startup, handed, written, last, spanOf>>

\* ---- the caller of a panicking method ------------------------------------

\* The caller recovers the panic in a deferred function and goes on.
Recover ==
  /\ pc = "panic"
  /\ pc' = "main"
  /\ UNCHANGED <<startup, counters, handed, written, last, op, calls, invoked, spanOf, goroutines>>

\* Nobody recovers: the runtime ends the process.
Crash ==
  /\ pc = "panic"
  /\ pc' = "exit"
  /\ UNCHANGED <<startup, counters, handed, written, last, op, calls, invoked, spanOf, goroutines>>


Next ==
  \/ InitRegisterPretty
  \/ InitRegisterOSSinks
  \/ InitParseLevel
  \/ InitBuild
  \/ Infow
  \/ Debugw
  \/ Warnw
  \/ Errorw
  \/ Infof
  \/ Debugf
  \/ Warnf
  \/ Info
  \/ Debug
  \/ Warn
  \/ Error
  \/ Errorf
  \/ PkgInfow
  \/ Write
  \/ Panicf
  \/ Panic
  \/ WarnIf
  \/ ErrorIf
  \/ ErrorIfCalling
  \/ PanicIf
  \/ Fatal
  \/ Fatalf
  \/ WithSpan
  \/ Sync
  \/ CreateProductionLogger
  \/ Recover
  \/ Crash

Spec == Init /\ [][Next]_vars

\* ---- the same methods, statement by statement, on several goroutines -----

\* The emission methods of the facade and the level each one logs at.
EmissionMethods ==
  {"Debug", "Debugw", "Debugf", "Info", "Infow", "Infof", "Warn", "Warnw", "Warnf",
   "Error", "Errorw", "Errorf", "Panic", "Panicf", "Fatal", "Fatalf"}

MethodLevel(m) ==
  CASE m \in {"Debug", "Debugw", "Debugf"} -> DebugLevel
    [] m \in {"Info", "Infow", "Infof"} -> InfoLevel
    [] m \in {"Warn", "Warnw", "Warnf"} -> WarnLevel
    [] m \in {"Error", "Errorw", "Errorf"} -> ErrorLevel
    [] m \in {"Panic", "Panicf"} -> PanicLevel
    [] m \in {"Fatal", "Fatalf"} -> FatalLevel

\* init() has run and succeeded; every goroutine is outside the facade.
InitConc ==
  /\ pc = "main"
  /\ sinks = {"file", "pretty"}
  /\ env \in {e \in EnvLevels : UnmarshalText(e).ok}
  /\ err = NilErr
  /\ level = UnmarshalText(env).level
  /\ l = [level |-> level, fields |-> {}, built |-> TRUE]
  /\ counters = [lbl \in Labels |-> 0]
  /\ handed = [lvl \in Levels |-> 0]
  /\ written = 0
  /\ last = NoRecord
  /\ op = Op("none", NilErr, <<>>, NoArg, NilSpan, Void)
  /\ calls = 0
  /\ invoked = 0
  /\ spanOf = NilSpan
  /\ tpc = [t \in Threads |-> Idle]
  /\ returned = [lvl \in Levels |-> 0]
  /\ overlap = FALSE

\* Goroutine t enters a method while another goroutine is inside one.
Enters(t) ==
  /\ pc = "main" /\ calls < MaxCalls /\ tpc[t] = Idle
  /\ calls' = calls + 1
  /\ overlap' = (overlap \/ \E u \in Threads \ {t} : tpc[u].at \in {"inc", "log"})

\* First statement of Debug .. Errorf: log.l.<Level>(...), which returns.
TLog(t) ==
  /\ Enters(t)
  /\ \E m \in EmissionMethods :
       /\ MethodLevel(m) < PanicLevel
       /\ EngineLog(l, MethodLevel(m), <<"x">>, {})
       /\ tpc' = [tpc EXCEPT ![t] = [at |-> "inc", level |-> MethodLevel(m)]]
  /\ UNCHANGED <<pc, startup, counters, op, invoked, spanOf, returned>>

\* A counter whose add is a load and a store: of two goroutines adding to
\* the same counter at once, one add is lost.
TCountRacy(t) ==
  /\ pc = "main" /\ tpc[t].at = "inc"
  /\ counters' = IF \E u \in Threads \ {t} : tpc[u] = tpc[t]
                   THEN counters
                   ELSE Inc(counters, LevelString(tpc[t].level))
  /\ returned' = [returned EXCEPT ![tpc[t].level] = @ + 1]
  /\ tpc' = [tpc EXCEPT ![t] = Idle]
  /\ UNCHANGED <<pc, startup, handed, written, last, op, calls, invoked, spanOf, overlap>>

\* Second statement of Debug .. Errorf: <level>LineCounter.Inc(); return.
TCount(t) ==
  /\ pc = "main" /\ tpc[t].at = "inc"
  /\ counters' = Inc(counters, LevelString(tpc[t].level))
  /\ returned' = [returned EXCEPT ![tpc[t].level] = @ + 1]
  /\ tpc' = [tpc EXCEPT ![t] = Idle]
  /\ UNCHANGED <<pc, startup, handed, written, last, op, calls, invoked, spanOf, overlap>>

\* First statement of Panic and Panicf: log.l.Panic(...), which panics.
TPanic(t) ==
  /\ Enters(t)
  /\ EngineLog(l, PanicLevel, <<"x">>, {})
  /\ tpc' = [tpc EXCEPT ![t] = [at |-> "panic", level |-> PanicLevel]]
  /\ UNCHANGED <<pc, startup, counters, op, invoked, spanOf, returned>>

\* The panic is recovered up the goroutine's stack.
TRecover(t) ==
  /\ pc = "main" /\ tpc[t].at = "panic"
  /\ tpc' = [tpc EXCEPT ![t] = Idle]
  /\ UNCHANGED <<pc, startup, counters, handed, written, last, op, calls, invoked, spanOf, returned, overlap>>

\* The panic is not recovered: the runtime ends the process.
TCrash(t) ==
  /\ pc = "main" /\ tpc[t].at = "panic"
  /\ pc' = "exit"
  /\ UNCHANGED <<startup, counters, handed, written, last, op, calls, invoked, spanOf, goroutines>>

\* First statement of Fatal: fatalLineCounter.Inc().
TFatalCount(t) ==
  /\ Enters(t)
  /\ counters' = Inc(counters, fatalLineCounter)
  /\ tpc' = [tpc EXCEPT ![t] = [at |-> "log", level |-> FatalLevel]]
  /\ UNCHANGED <<pc, startup, handed, written, last, op, invoked, spanOf, returned>>

\* Second statement of Fatal: log.l.Fatal(args...), which exits.
TFatalLog(t) ==
  /\ pc = "main" /\ tpc[t].at = "log"
  /\ EngineLog(l, FatalLevel, <<"x">>, {})
  /\ pc' = "exit"
  /\ UNCHANGED <<startup, counters, op, calls, invoked, spanOf, goroutines>>

\* First statement of Fatalf: log.l.Fatal(fmt.Sprintf(...)), which exits.
TFatalf(t) ==
  /\ Enters(t)
  /\ EngineLog(l, FatalLevel, Sprintf("x", <<"x">>), {})
  /\ pc' = "exit"
  /\ tpc' = [tpc EXCEPT ![t] = [at |-> "exit", level |-> FatalLevel]]
  /\ UNCHANGED <<startup, counters, op, invoked, spanOf, returned>>

NextConc ==
  \E t \in Threads :
    \/ TLog(t)
    \/ TCount(t)
    \/ TPanic(t)
    \/ TRecover(t)
    \/ TCrash(t)
    \/ TFatalCount(t)
    \/ TFatalLog(t)
    \/ TFatalf(t)

SpecConc == InitConc /\ [][NextConc]_vars

\* ---- properties -----------------------------------------------------------

\* A call of one of the methods ms is made in this step.
CallOf(ms) == calls' = calls + 1 /\ op'.method \in ms

\* In this step the counter labelled lbl grows by one and no other changes.
OnlyCounted(lbl) == \A x \in Labels : counters'[x] = counters[x] + (IF x = lbl THEN 1 ELSE 0)

\* In this step one record is handed to the engine, at level lvl.
OnlyHanded(lvl) == \A x \in Levels : handed'[x] = handed[x] + (IF x = lvl THEN 1 ELSE 0)

\* In this step nothing is handed to the engine and no counter changes.
Quiet == UNCHANGED <<counters, handed, written, last>>

\* C1: one call of any emission method (Debug.. Fatalf) at level L adds exactly
\* 1 to the counter of L and leaves every other counter as it was.
C1_EveryEmissionMethodCountsItsLevel ==
  [][CallOf(EmissionMethods) => OnlyCounted(LevelString(MethodLevel(op'.method)))]_vars

\* C2: whenever the process runs and no call is in progress, the counter of
\* each level equals the number of records handed to the engine at that level.
C2_CountersEqualRecordsHanded ==
  pc = "main" => \A lvl \in Levels : counters[LevelString(lvl)] = handed[lvl]

\* C3: in every call of Fatal or Fatalf the process exits with the fatal
\* counter one higher than before the call.
C3_FatalCountedWhenProcessExits ==
  [][CallOf({"Fatal", "Fatalf"}) =>
       pc' = "exit" /\ OnlyHanded(FatalLevel) /\ counters'["fatal"] = counters["fatal"] + 1]_vars

\* C4: WarnIf(nil) and ErrorIf(nil, ...) emit nothing and count nothing;
\* WarnIf(err) emits err once at Warn and adds 1 to the warn counter only;
\* ErrorIf(err, msg...) emits once at Error, err wrapped with msg[0] if given,
\* and adds 1 to the error counter only; both return normally, returning nothing.
C4_WarnIfErrorIf ==
  [][CallOf({"WarnIf", "ErrorIf"}) =>
       /\ pc' = "main"
       /\ Len(op'.result) = 0
       /\ IF op'.err = NilErr
            THEN Quiet
            ELSE IF op'.method = "WarnIf"
              THEN /\ OnlyHanded(WarnLevel) /\ OnlyCounted("warn")
                   /\ last'.level = WarnLevel /\ last'.msg = op'.err
              ELSE /\ OnlyHanded(ErrorLevel) /\ OnlyCounted("error")
                   /\ last'.level = ErrorLevel
                   /\ last'.msg = (IF Len(op'.opt) > 0 THEN <<op'.opt[1]>> \o op'.err ELSE op'.err)]_vars

C4_Witness ==
  /\ pc = "main" /\ op.method = "ErrorIf" /\ op.err = <<"EOF">>
  /\ last.level = ErrorLevel /\ last.msg = <<"closing file", "EOF">>
  /\ counters["error"] = 2 /\ counters["warn"] = 1

\* C5: ErrorIfCalling(f, msg...) invokes f once; if f returns nil nothing is
\* emitted or counted; otherwise one record is emitted at Error whose message
\* holds the name of f (under msg[0] when given) and only the error counter
\* grows, by 1.
C5_ErrorIfCalling ==
  [][CallOf({"ErrorIfCalling"}) =>
       /\ invoked' = 1
       /\ pc' = "main"
       /\ IF FuncResult(op'.f) = NilErr
            THEN Quiet
            ELSE /\ OnlyHanded(ErrorLevel) /\ OnlyCounted("error")
                 /\ last'.level = ErrorLevel
                 /\ \E i \in 1..Len(last'.msg) : last'.msg[i] = FuncName(op'.f)
                 /\ Len(op'.opt) > 0 =>
                      last'.msg[1] = op'.opt[1] /\ last'.msg[2] = FuncName(op'.f)]_vars

C5_Witness ==
  /\ pc = "main" /\ op.method = "ErrorIfCalling" /\ op.f = "fFail" /\ invoked = 1
  /\ last.msg = <<"closing file", "main.closeFail", "EOF">>
  /\ counters["error"] = 1 /\ handed[ErrorLevel] = 1

\* C6: once WithSpan was called with a non-nil span, every later emission
\* through the logger carries the field TraceID with the span's trace id.
C6_EmissionsAfterWithSpanCarryTraceID ==
  [][(calls' = calls + 1 /\ handed' # handed /\ spanOf # NilSpan) =>
       <<TraceId, TraceIDString(spanOf)>> \in last'.fields]_vars

\* C7: PanicIf(nil) emits nothing, counts nothing and returns; PanicIf(err)
\* hands exactly one record to the engine, at Panic, and leaves by a panic.
C7_PanicIf ==
  [][CallOf({"PanicIf"}) =>
       IF op'.err = NilErr
         THEN pc' = "main" /\ Quiet
         ELSE /\ pc' = "panic"
              /\ OnlyHanded(PanicLevel)
              /\ last'.level = PanicLevel /\ last'.msg = op'.err]_vars

C7_Witness ==
  /\ pc = "panic" /\ op.method = "PanicIf" /\ op.err = <<"EOF">>
  /\ last.level = PanicLevel /\ handed[PanicLevel] = 1

\* C8: for every emission method whose level is below the logger's active
\* level, a call writes nothing to any destination and still adds 1 to the
\* counter of the method's level.
C8_BelowActiveLevelCountedNotWritten ==
  [][(CallOf(EmissionMethods) /\ MethodLevel(op'.method) < l.level) =>
       /\ written' = written
       /\ counters'[LevelString(MethodLevel(op'.method))] =
            counters[LevelString(MethodLevel(op'.method))] + 1]_vars

\* init() got past the parsing of LOG_LEVEL.
LevelParsed == pc \notin {"registerPretty", "registerOS", "parseLevel"}

\* C9 as stated: a failed registration, an invalid or missing LOG_LEVEL or a
\* failed build ends the process with l never assigned.
C9_InvalidOrMissingLevelIsFatal ==
  /\ err # NilErr => pc = "exit" /\ ~l.built
  /\ (LevelParsed /\ (env = "" \/ ~UnmarshalText(env).ok)) => pc = "exit" /\ ~l.built

\* What holds in every state of a start-up.
C9_StartupInvariant ==
  /\ err # NilErr => pc = "exit" /\ ~l.built /\ calls = 0
  /\ (LevelParsed /\ ~UnmarshalText(env).ok) => pc = "exit" /\ ~l.built
  /\ ~l.built => \A lvl \in Levels : handed[lvl] = 0
  /\ l.built => /\ err = NilErr
                /\ "pretty" \in sinks
                /\ UnmarshalText(env).ok
                /\ l.level = UnmarshalText(env).level
                /\ (env = "" => l.level = InfoLevel)

\* C9, amended: a failed registration, a LOG_LEVEL that is no level name or a
\* failed build ends the process with l never assigned and nothing emitted;
\* l is assigned only when every step succeeded, once, and a LOG_LEVEL that
\* is not set gives the level Info.
C9_StartupErrorsAreFatal ==
  /\ []C9_StartupInvariant
  /\ [][(l.built => l' = l) /\ (pc = "exit" => pc' = "exit")]_vars

C9_Witness ==
  /\ pc = "exit" /\ env = "verbose" /\ err = <<"unrecognized level", "verbose">>
  /\ ~l.built /\ counters["fatal"] = 1

\* C10: when every call made by every goroutine has returned, the counter of
\* each level equals the number of calls at that level that returned.
C10_NoIncrementLost ==
  (\A t \in Threads : tpc[t] = Idle) =>
     \A lvl \in Levels : counters[LevelString(lvl)] = returned[lvl]

C10_Witness ==
  /\ \A t \in Threads : tpc[t] = Idle
  /\ overlap
  /\ returned[InfoLevel] = 2 /\ counters["info"] = 2

====
